---- MODULE Spec2Model ----
(***************************************************************************)
(* State-machine model of the task scheduler of genagent                   *)
(* (src/src/core/scheduler.js): the task map, the in-flight and stop-flag  *)
(* maps, the durable record store, the timers armed by scheduleTask and    *)
(* the Runner invocations that are awaiting the collaborator.              *)
(*                                                                         *)
(* Time is a wall clock counted in ticks; a minute has TicksPerMinute      *)
(* ticks.  A due timer fires before the clock advances.                    *)
(***************************************************************************)
EXTENDS Integers, Sequences, FiniteSets, TLC

\* ---- bounds of the model -------------------------------------------------
MaxTasks == 2
TicksPerMinute == 2
MaxTime == 4
MaxOps == 3
MaxRuns == 2
\* attemptFix calls that can await executeFix at the same time
MaxCalls == 2
\* permission requests that can be made
MaxRequests == 3
\* addMessage calls that can be made
MaxMessages == 3

\* ---- program constants ---------------------------------------------------
CronPollMs == 60000
\* AutoFix: this.maxAttempts
maxAttempts == 5

MsPerMinute == 60 * 1000
MsPerTick == MsPerMinute \div TicksPerMinute
CronPollTicks == CronPollMs \div MsPerTick

Ids == 1..MaxTasks
NoTime == 0 - 1
NoTask == [type |-> "none"]
NoFile == [type |-> "none"]
\* this.currentSession = null
NoSession == [id |-> <<>>, created |-> <<>>, lastActive |-> <<>>, messages |-> <<>>]
NoMatch == [type |-> "none"]

\* ---- schedule phrases ----------------------------------------------------
\* A phrase is kept as the tokens its grammar captures.
Wild == [k |-> "any"]
Lit(n) == [k |-> "lit", n |-> n]

Phrases ==
    {[g |-> "at", t |-> 1],
     [g |-> "every", n |-> 1, unit |-> "minute"],
     [g |-> "daily", h |-> 0, m |-> 1],
     [g |-> "none"]}

UnitMs(unit) ==
    IF unit = "minute" THEN 60 * 1000
    ELSE IF unit = "hour" THEN 60 * 60 * 1000
    ELSE 24 * 60 * 60 * 1000

\* (mutation: a phrase no grammar matches is taken as a one-minute heartbeat)
parseScheduleWithDefault(p) ==
    IF p.g = "at" THEN
        [type |-> "one-time", interval |-> NoTime, cron |-> <<>>,
         datetime |-> p.t]
    ELSE IF p.g = "daily" THEN
        [type |-> "recurring", interval |-> NoTime,
         cron |-> <<Lit(0), Lit(p.m), Lit(p.h), Wild, Wild, Wild>>,
         datetime |-> NoTime]
    ELSE
        [type |-> "heartbeat",
         interval |-> IF p.g = "every" THEN p.n * UnitMs(p.unit)
                      ELSE UnitMs("minute"),
         cron |-> <<>>, datetime |-> NoTime]

\* a cron text with the hour and the minute in each other's field
CronAtHourFirst(h, m, dom, dow) == <<Lit(0), Lit(h), Lit(m), dom, Wild, dow>>

\* the cron text `0 MM H dom * dow`: seconds, minute, hour, day of month,
\* month, day of week
CronAt(h, m, dom, dow) == <<Lit(0), Lit(m), Lit(h), dom, Wild, dow>>

parseSchedule(p) ==
    IF p.g = "at" THEN
        [type |-> "one-time", interval |-> NoTime, cron |-> <<>>,
         datetime |-> p.t]
    ELSE IF p.g = "every" THEN
        [type |-> "heartbeat", interval |-> p.n * UnitMs(p.unit),
         cron |-> <<>>, datetime |-> NoTime]
    ELSE IF p.g = "daily" THEN
        [type |-> "recurring", interval |-> NoTime,
         cron |-> CronAt(p.h, p.m, Wild, Wild),
         datetime |-> NoTime]
    ELSE IF p.g = "weekly" THEN
        [type |-> "recurring", interval |-> NoTime,
         cron |-> CronAt(p.h, p.m, Wild, Lit(p.day)),
         datetime |-> NoTime]
    ELSE IF p.g = "monthly" THEN
        [type |-> "recurring", interval |-> NoTime,
         cron |-> CronAt(p.h, p.m, Lit(p.dom), Wild),
         datetime |-> NoTime]
    ELSE NoMatch

\* ---- schedule phrases as text ---------------------------------------------
\* A text is the sequence of its characters.
Digit == <<"0", "1", "2", "3", "4", "5", "6", "7", "8", "9">>
Upper == <<"A", "B", "C", "D", "E", "F", "G", "H", "I", "J", "K", "L", "M", "N", "O", "P", "Q", "R", "S", "T", "U", "V", "W", "X", "Y", "Z">>
Lower == <<"a", "b", "c", "d", "e", "f", "g", "h", "i", "j", "k", "l", "m", "n", "o", "p", "q", "r", "s", "t", "u", "v", "w", "x", "y", "z">>
Digits == {Digit[i] : i \in 1..Len(Digit)}
Letters == {Lower[i] : i \in 1..Len(Lower)}
WordChars == Letters \cup {Upper[i] : i \in 1..Len(Upper)} \cup Digits \cup {"_"}
Blank == {" "}
DigitVal(c) == (CHOOSE i \in 1..Len(Digit) : Digit[i] = c) - 1
MinOf(S) == CHOOSE x \in S : \A y \in S : x <= y
MaxOf(S) == CHOOSE x \in S : \A y \in S : x >= y

toLowerCase(str) ==
    [i \in 1..Len(str) |->
        IF \E k \in 1..Len(Upper) : Upper[k] = str[i]
        THEN Lower[CHOOSE k \in 1..Len(Upper) : Upper[k] = str[i]]
        ELSE str[i]]

trim(str) ==
    LET inked == {i \in 1..Len(str) : str[i] \notin Blank}
    IN  IF inked = {} THEN <<>> ELSE SubSeq(str, MinOf(inked), MaxOf(inked))

\* the decimal text of a number below 100
DigitChars == <<"0", "1", "2", "3", "4", "5", "6", "7", "8", "9">>
Numeral(n) ==
    IF n < 10 THEN <<DigitChars[n + 1]>>
    ELSE <<DigitChars[(n \div 10) + 1], DigitChars[(n % 10) + 1]>>
TwoDigits(n) == <<DigitChars[(n \div 10) + 1], DigitChars[(n % 10) + 1]>>

RECURSIVE parseInt(_)
parseInt(ds) ==
    IF ds = <<>> THEN 0
    ELSE 10 * parseInt(SubSeq(ds, 1, Len(ds) - 1)) + DigitVal(ds[Len(ds)])

\* a regular expression is a sequence of items: a literal, a character class
\* repeated min..max times (max below 0: no upper limit, greedy), or a group
\* of alternative literals tried in the order written
Many == 0 - 1
Str(w) == [k |-> "lit", w |-> w]
Cls(set, min, max) == [k |-> "cls", set |-> set, min |-> min, max |-> max]
Alt(words) == [k |-> "alt", words |-> words]
Sp == Cls(Blank, 1, Many)
D(min, max) == Cls(Digits, min, max)
HHMM == <<D(1, 2), Str(<<":">>), D(2, 2)>>

UnitWords ==
    <<<<"m", "i", "n", "u", "t", "e">>,
      <<"m", "i", "n", "u", "t", "e", "s">>,
      <<"h", "o", "u", "r">>,
      <<"h", "o", "u", "r", "s">>,
      <<"d", "a", "y">>,
      <<"d", "a", "y", "s">>>>
UnitNames == <<"minute", "minute", "hour", "hour", "day", "day">>

oneTimeRe ==
    <<Str(<<"a", "t">>), Sp, D(4, 4), Str(<<"-">>), D(2, 2), Str(<<"-">>), D(2, 2), Sp>>
    \o HHMM
heartbeatRe ==
    <<Str(<<"e", "v", "e", "r", "y">>), Sp, D(1, Many), Cls(Blank, 0, Many), Alt(UnitWords)>>
dailyRe == <<Str(<<"d", "a", "i", "l", "y">>), Sp, Str(<<"a", "t">>), Sp>> \o HHMM
weeklyRe ==
    <<Str(<<"w", "e", "e", "k", "l", "y">>), Sp, Str(<<"o", "n">>), Sp, Cls(WordChars, 1, Many), Sp,
      Str(<<"a", "t">>), Sp>> \o HHMM
monthlyRe ==
    <<Str(<<"m", "o", "n", "t", "h", "l", "y">>), Sp, Str(<<"o", "n">>), Sp, D(1, 2), Sp, Str(<<"a", "t">>), Sp>> \o HHMM

NoFit == [ok |-> FALSE, at |-> 0, lens |-> <<>>]

StartsAt(str, pos, w) ==
    /\ pos + Len(w) - 1 <= Len(str)
    /\ \A j \in 1..Len(w) : str[pos + j - 1] = w[j]

\* the match of items k.. of re at position pos that a backtracking matcher
\* finds first: the length each item takes
RECURSIVE MatchFrom(_, _, _, _)
MatchFrom(re, k, str, pos) ==
    IF k > Len(re) THEN [ok |-> TRUE, at |-> pos, lens |-> <<>>]
    ELSE
        LET it == re[k]
            room == Len(str) - pos + 1
            top == IF it.k = "cls" /\ it.max >= 0 /\ it.max < room
                   THEN it.max ELSE room
            fits(n) ==
                IF it.k = "lit" THEN n = Len(it.w) /\ StartsAt(str, pos, it.w)
                ELSE IF it.k = "alt" THEN
                    \E a \in 1..Len(it.words) :
                        n = Len(it.words[a]) /\ StartsAt(str, pos, it.words[a])
                ELSE n >= it.min /\ \A j \in pos..(pos + n - 1) : str[j] \in it.set
            rest == [n \in {m \in 0..top : fits(m)} |->
                        MatchFrom(re, k + 1, str, pos + n)]
            good == {n \in DOMAIN rest : rest[n].ok}
            \* a class takes the most it can; of the alternatives the first
            \* written that lets the rest match
            pick == IF it.k = "alt"
                    THEN Len(it.words[MinOf({a \in 1..Len(it.words) :
                                                Len(it.words[a]) \in good
                                                /\ StartsAt(str, pos, it.words[a])})])
                    ELSE MaxOf(good)
        IN  IF good = {} THEN NoFit
            ELSE [ok |-> TRUE, at |-> pos, lens |-> <<pick>> \o rest[pick].lens]

\* str.match(re): the leftmost match
Match(re, str) ==
    LET tries == [p \in 1..(Len(str) + 1) |-> MatchFrom(re, 1, str, p)]
        hits == {p \in DOMAIN tries : tries[p].ok}
    IN  IF hits = {} THEN NoFit ELSE tries[MinOf(hits)]

RECURSIVE Sum(_, _)
Sum(lens, k) == IF k = 0 THEN 0 ELSE lens[k] + Sum(lens, k - 1)

\* the text item k of the match took
Group(str, m, k) ==
    SubSeq(str, m.at + Sum(m.lens, k - 1), m.at + Sum(m.lens, k) - 1)

Days ==
    <<<<"s", "u", "n", "d", "a", "y">>,
      <<"m", "o", "n", "d", "a", "y">>,
      <<"t", "u", "e", "s", "d", "a", "y">>,
      <<"w", "e", "d", "n", "e", "s", "d", "a", "y">>,
      <<"t", "h", "u", "r", "s", "d", "a", "y">>,
      <<"f", "r", "i", "d", "a", "y">>,
      <<"s", "a", "t", "u", "r", "d", "a", "y">>>>
indexOf(seq, x) ==
    IF \E i \in 1..Len(seq) : seq[i] = x
    THEN (CHOOSE i \in 1..Len(seq) : seq[i] = x) - 1 ELSE 0 - 1

\* new Date(y-mo-d h:m).getTime(), in minutes since the epoch
DateMinute(y, mo, d, h, m) ==
    LET yy == IF mo <= 2 THEN y - 1 ELSE y
        era == yy \div 400
        yoe == yy - era * 400
        doy == (153 * (IF mo > 2 THEN mo - 3 ELSE mo + 9) + 2) \div 5 + d - 1
        doe == yoe * 365 + yoe \div 4 - yoe \div 100 + doy
    IN  ((era * 146097 + doe - 719468) * 24 + h) * 60 + m

\* a parser that tries the daily grammar before the others
ScanDailyFirst(text) ==
    LET str == trim(toLowerCase(text))
        one == Match(oneTimeRe, str)
        hb == Match(heartbeatRe, str)
        da == Match(dailyRe, str)
        we == Match(weeklyRe, str)
        mo == Match(monthlyRe, str)
        num(m, k) == parseInt(Group(str, m, k))
    IN  IF da.ok THEN
            [g |-> "daily", text |-> text, h |-> num(da, 5), m |-> num(da, 7)]
        ELSE IF one.ok THEN
            [g |-> "at", text |-> text,
             t |-> DateMinute(num(one, 3), num(one, 5), num(one, 7),
                              num(one, 9), num(one, 11))]
        ELSE IF hb.ok THEN
            [g |-> "every", text |-> text, n |-> num(hb, 3),
             unit |-> UnitNames[1 + indexOf(UnitWords, Group(str, hb, 5))]]
        ELSE IF we.ok THEN
            [g |-> "weekly", text |-> text,
             day |-> indexOf(Days, Group(str, we, 5)),
             h |-> num(we, 9), m |-> num(we, 11)]
        ELSE IF mo.ok THEN
            [g |-> "monthly", text |-> text, dom |-> num(mo, 5),
             h |-> num(mo, 9), m |-> num(mo, 11)]
        ELSE [g |-> "none", text |-> text]

\* the regular expressions of parseSchedule, tried in its order on the
\* lower-cased, trimmed text: the grammar that matched and what it captured
Scan(text) ==
    LET str == trim(toLowerCase(text))
        one == Match(oneTimeRe, str)
        hb == Match(heartbeatRe, str)
        da == Match(dailyRe, str)
        we == Match(weeklyRe, str)
        mo == Match(monthlyRe, str)
        num(m, k) == parseInt(Group(str, m, k))
    IN  IF one.ok THEN
            [g |-> "at", text |-> text,
             t |-> DateMinute(num(one, 3), num(one, 5), num(one, 7),
                              num(one, 9), num(one, 11))]
        ELSE IF hb.ok THEN
            [g |-> "every", text |-> text, n |-> num(hb, 3),
             unit |-> UnitNames[1 + indexOf(UnitWords, Group(str, hb, 5))]]
        ELSE IF da.ok THEN
            [g |-> "daily", text |-> text, h |-> num(da, 5), m |-> num(da, 7)]
        ELSE IF we.ok THEN
            [g |-> "weekly", text |-> text,
             day |-> indexOf(Days, Group(str, we, 5)),
             h |-> num(we, 9), m |-> num(we, 11)]
        ELSE IF mo.ok THEN
            [g |-> "monthly", text |-> text, dom |-> num(mo, 5),
             h |-> num(mo, 9), m |-> num(mo, 11)]
        ELSE [g |-> "none", text |-> text]

\* the texts given to the parser
Texts ==
    {\* 'every 30 minutes'
     <<"e", "v", "e", "r", "y", " ", "3", "0", " ", "m", "i", "n", "u", "t", "e", "s">>,
     \* 'every 1 hour'
     <<"e", "v", "e", "r", "y", " ", "1", " ", "h", "o", "u", "r">>,
     \* 'every 1 day'
     <<"e", "v", "e", "r", "y", " ", "1", " ", "d", "a", "y">>,
     \* 'every 1 minute'
     <<"e", "v", "e", "r", "y", " ", "1", " ", "m", "i", "n", "u", "t", "e">>,
     \* 'every 0 minutes'
     <<"e", "v", "e", "r", "y", " ", "0", " ", "m", "i", "n", "u", "t", "e", "s">>,
     \* 'Every 2  Hours '
     <<"E", "v", "e", "r", "y", " ", "2", " ", " ", "H", "o", "u", "r", "s", " ">>,
     \* 'at 2026-02-20 14:00'
     <<"a", "t", " ", "2", "0", "2", "6", "-", "0", "2", "-", "2", "0", " ", "1", "4", ":", "0", "0">>,
     \* 'at 1970-01-01 00:01'
     <<"a", "t", " ", "1", "9", "7", "0", "-", "0", "1", "-", "0", "1", " ", "0", "0", ":", "0", "1">>,
     \* 'daily at 9:30'
     <<"d", "a", "i", "l", "y", " ", "a", "t", " ", "9", ":", "3", "0">>,
     \* 'daily at 0:01'
     <<"d", "a", "i", "l", "y", " ", "a", "t", " ", "0", ":", "0", "1">>,
     \* 'daily at 9am'
     <<"d", "a", "i", "l", "y", " ", "a", "t", " ", "9", "a", "m">>,
     \* 'weekly on monday at 9:00'
     <<"w", "e", "e", "k", "l", "y", " ", "o", "n", " ", "m", "o", "n", "d", "a", "y", " ", "a", "t", " ", "9", ":", "0", "0">>,
     \* 'weekly on mon at 9:00'
     <<"w", "e", "e", "k", "l", "y", " ", "o", "n", " ", "m", "o", "n", " ", "a", "t", " ", "9", ":", "0", "0">>,
     \* 'weekly on monday at 9am'
     <<"w", "e", "e", "k", "l", "y", " ", "o", "n", " ", "m", "o", "n", "d", "a", "y", " ", "a", "t", " ", "9", "a", "m">>,
     \* 'monthly on 1 at 0:00'
     <<"m", "o", "n", "t", "h", "l", "y", " ", "o", "n", " ", "1", " ", "a", "t", " ", "0", ":", "0", "0">>,
     \* 'daily at 9:30 every 1 minute'
     <<"d", "a", "i", "l", "y", " ", "a", "t", " ", "9", ":", "3", "0", " ", "e", "v", "e", "r", "y", " ", "1", " ", "m", "i", "n", "u", "t", "e">>,
     \* 'weekly on sunday at 8:00 daily at 0:01'
     <<"w", "e", "e", "k", "l", "y", " ", "o", "n", " ", "s", "u", "n", "d", "a", "y", " ", "a", "t", " ", "8", ":", "0", "0", " ", "d", "a", "i", "l", "y", " ", "a", "t", " ", "0", ":", "0", "1">>,
     \* 'tomorrow'
     <<"t", "o", "m", "o", "r", "r", "o", "w">>}

Scanned == [text \in Texts |-> Scan(text)]

\* ---- the clock -----------------------------------------------------------
\* new Date(datetime).getTime(), in ticks; datetime is a minute of the epoch day
DateTicks(datetime) == datetime * TicksPerMinute

\* the fields of new Date() at tick t (first month of the epoch)
Current(t) ==
    LET ms  == t * MsPerTick
        day == ms \div (24 * 60 * 60 * 1000)
    IN  <<(ms \div 1000) % 60,
          (ms \div (60 * 1000)) % 60,
          (ms \div (60 * 60 * 1000)) % 24,
          1 + day,
          1,
          (4 + day) % 7>>

\* ---- cron fields as text ---------------------------------------------------
\* a field of a cron is one of: '*', a number, a comma list of numbers, a
\* range a-b, a step */n
List(ns) == [k |-> "list", ns |-> ns]
Range(a, b) == [k |-> "range", a |-> a, b |-> b]
Step(n) == [k |-> "step", n |-> n]

RECURSIVE Join(_, _)
Join(parts, sep) ==
    IF Len(parts) = 1 THEN parts[1]
    ELSE parts[1] \o sep \o Join(Tail(parts), sep)

\* the text of a field in the cron string; a negative number (the dayIndex
\* of an unknown weekday) is written with its sign
FieldText(field) ==
    IF field.k = "any" THEN <<"*">>
    ELSE IF field.k = "lit" THEN
        IF field.n < 0 THEN <<"-">> \o Numeral(0 - field.n) ELSE Numeral(field.n)
    ELSE IF field.k = "list" THEN
        Join([i \in 1..Len(field.ns) |-> Numeral(field.ns[i])], <<",">>)
    ELSE IF field.k = "range" THEN Numeral(field.a) \o <<"-">> \o Numeral(field.b)
    ELSE <<"*", "/">> \o Numeral(field.n)

includes(str, c) == \E i \in 1..Len(str) : str[i] = c

RECURSIVE split(_, _)
split(str, c) ==
    IF ~includes(str, c) THEN <<str>>
    ELSE LET at == MinOf({i \in 1..Len(str) : str[i] = c})
         IN  <<SubSeq(str, 1, at - 1)>> \o split(SubSeq(str, at + 1, Len(str)), c)

\* NaN, and Number(text) and parseInt(text) that give it for text that is no
\* number; Number('') is 0 and parseInt reads the digits the text starts with
NaN == 0 - 1
Number(str) ==
    IF str = <<>> THEN 0
    ELSE IF \A i \in 1..Len(str) : str[i] \in Digits THEN parseInt(str)
    ELSE NaN
parseIntOrNaN(str) ==
    LET lead == {n \in 0..Len(str) : \A i \in 1..n : str[i] \in Digits}
    IN  IF MaxOf(lead) = 0 THEN NaN ELSE parseInt(SubSeq(str, 1, MaxOf(lead)))

\* a range test that leaves out both ends
BetweenExclusive(value, start, end) == value > start /\ value < end

\* value >= start && value <= end; a comparison with NaN is false
Between(value, start, end) ==
    start # NaN /\ end # NaN /\ value >= start /\ value <= end

\* matches(field, value) of runCron, on the text of the field
matchesText(field, value) ==
    IF field = <<"*">> THEN TRUE
    ELSE IF includes(field, ",") THEN
        \E i \in 1..Len(split(field, ",")) : split(field, ",")[i] = Numeral(value)
    ELSE IF includes(field, "-") THEN
        LET parts == split(field, "-")
        IN  Between(value, Number(parts[1]), Number(parts[2]))
    ELSE IF includes(field, "/") THEN
        LET step == parseIntOrNaN(split(field, "/")[2])
        IN  step # NaN /\ step # 0 /\ value % step = 0
    ELSE parseIntOrNaN(field) = value

\* the field of a negative number is text with a '-' in it, which matches
\* reads as a range: its bounds are Number('') = 0 and the digits after '-'
matches(field, value) == matchesText(FieldText(field), value)

CronMatches(cron, t) ==
    \A i \in 1..Len(cron) : matches(cron[i], Current(t)[i])

VARIABLES
    now,            \* wall clock, in ticks
    nextId,         \* the next fresh task id (generateId)
    heap,           \* the task object of each id of this process
    tasks,          \* keys of this.tasks
    runningTasks,   \* keys of this.runningTasks
    stopFlags,      \* keys of this.stopFlags
    store,          \* data/schedules/<id>.json
    timers,         \* the armed timers, in creation order
    executing,      \* Runner invocations awaiting the collaborator, per id
    ops,            \* front-end operations and restarts so far
    called,         \* history: the ids a timer called runTask for in the last step
    armed,          \* history: the ids the last step created a timer for
    lastTimerCall,  \* history: tick of the latest call of runTask by a timer, per id
    removed,        \* history: ids removeTask has succeeded on
    ret,            \* history: the last step's operation, its argument and
                    \* what it returned or raised
    currentAttempts,\* AutoFix: this.currentAttempts, 0 for an absent key
    fixStopFlags,   \* AutoFix: this.stopFlags
    fixCalls,       \* AutoFix: the attemptFix calls awaiting executeFix
    fixRuns,        \* history: executeFix runs per id since its attempt
                    \* counter was last reset
    stopAsked,      \* history: ids stop was called for with no attemptFix
                    \* or clearStop of the id since
    permissions,    \* PermissionManager: this.permissions, by key
    pendingRequests,\* PermissionManager: this.pendingRequests, by request id
    nextReq,        \* the next fresh request id
    permFile,       \* data/permissions.json
    alwaysGranted,  \* history: what was granted with level 'always' and
                    \* neither revoked nor cleared since
    sessionFiles,   \* SessionManager: data/sessions/<id>.md, by session id
    currentSession, \* SessionManager: this.currentSession
    stamp           \* the clock the session timestamps are read from

prog == <<nextId, heap, tasks, runningTasks, stopFlags, store, timers, executing>>
sched == <<now, prog, ops, called, armed, lastTimerCall, removed>>
fixer == <<currentAttempts, fixStopFlags, fixCalls, fixRuns, stopAsked>>
perms == <<permissions, pendingRequests, nextReq, permFile, alwaysGranted>>
sess == <<sessionFiles, currentSession, stamp>>
others == <<fixer, perms, sess>>
vars == <<sched, ret, others>>

\* ---- timers --------------------------------------------------------------
TimerIdx == 1..Len(timers)
TimersOf(id) == {i \in TimerIdx : timers[i].task = id}
HeldTimersOf(id) == {i \in TimersOf(id) : timers[i].held}
HasLiveHandle(id) == HeldTimersOf(id) # {}

\* overwriting task.timeout / intervalId / cronId drops the reference to the
\* timer it named; the timer itself stays armed
Unhold(ts, id) ==
    [i \in 1..Len(ts) |->
        IF ts[i].task = id THEN [ts[i] EXCEPT !.held = FALSE] ELSE ts[i]]

NewTimer(id, kind, due, period) ==
    [task |-> id, kind |-> kind, due |-> due, period |-> period, held |-> TRUE]

\* Date.now() + task.interval, in ticks (null counts as 0 in the sum)
IntervalTicks(task) ==
    IF task.interval = NoTime THEN 0 ELSE task.interval \div MsPerTick

\* a heartbeat driven by the one-minute poll of the cron tasks, whatever its
\* interval
PeriodTicksOfPoll(task) == CronPollMs \div MsPerTick

\* setInterval(fn, delay): the runtime takes a delay below 1 (null included)
\* or above 2^31 - 1 ms as 1 ms
TimerDelayMs(ms) == IF ms < 1 \/ ms > 2147483647 THEN 1 ELSE ms
PeriodTicks(task) == TimerDelayMs(task.interval) \div MsPerTick

\* does scheduleTask create a timer for this task at tick t
Arms(task, t) ==
    \/ task.type = "one-time" /\ DateTicks(task.datetime) - t > 0
    \/ task.type = "heartbeat"
    \/ task.type = "recurring" /\ task.cron # <<>>

\* scheduleTask: the timers afterwards
scheduleTimers(ts, id, task, t) ==
    IF task.type = "one-time" THEN
        IF DateTicks(task.datetime) - t > 0
        THEN Append(Unhold(ts, id),
                    NewTimer(id, "timeout", DateTicks(task.datetime), 0))
        ELSE ts
    ELSE IF task.type = "heartbeat" THEN
        Append(Unhold(ts, id),
               NewTimer(id, "interval", t + PeriodTicks(task),
                        PeriodTicks(task)))
    ELSE IF task.type = "recurring" /\ task.cron # <<>> THEN
        Append(Unhold(ts, id),
               NewTimer(id, "cron", t + CronPollTicks, CronPollTicks))
    ELSE ts

\* scheduleTask: the task object afterwards
scheduleTask(task, t) ==
    IF task.type = "one-time" THEN
        IF DateTicks(task.datetime) - t > 0
        THEN [task EXCEPT !.nextRun = DateTicks(task.datetime)]
        ELSE task
    ELSE IF task.type = "heartbeat" THEN
        [task EXCEPT !.nextRun = t + IntervalTicks(task)]
    ELSE IF task.type = "recurring" /\ task.cron # <<>> THEN
        [task EXCEPT !.nextRun = t + CronPollTicks]
    ELSE task

\* (mutation: one-time tasks are armed like the others)
ShouldArmAnyType(task) == task.enabled

\* the test addTask, resumeTask and loadTasks make before scheduleTask
ShouldArm(task) == task.enabled /\ task.type # "one-time"

\* stopTask: clearTimeout / clearInterval of the handles the task holds
stopTimers(ts, id) ==
    IF id \in tasks
    THEN SelectSeq(ts, LAMBDA x : ~(x.task = id /\ x.held))
    ELSE ts

\* ---- the record store ----------------------------------------------------
\* JSON.stringify of the task then JSON.parse: the record's plain fields
Serialize(task) ==
    [type |-> task.type, schedule |-> task.schedule,
     interval |-> task.interval, cron |-> task.cron,
     datetime |-> task.datetime, enabled |-> task.enabled,
     lastRun |-> task.lastRun, nextRun |-> task.nextRun,
     runCount |-> task.runCount, successCount |-> task.successCount,
     failureCount |-> task.failureCount]

\* writeFileSync(JSON.stringify(task)): an armed timer handle of the runtime
\* (Node.js 20+, README) is a node of the runtime's circular timer list, so
\* JSON.stringify of a task that holds one throws; a cleared handle is plain
SaveOk(ts, id) == ~(\E i \in 1..Len(ts) : ts[i].task = id /\ ts[i].held)

\* a store that keeps every task in one file: a write replaces them all
saveTaskOneFile(st, id, task, ok) ==
    IF ok THEN [i \in DOMAIN st |-> Serialize(task)] ELSE st

saveTask(st, id, task, ok) ==
    IF ok THEN [st EXCEPT ![id] = Serialize(task)] ELSE st

\* what a step leaves in ret; a step of the clock or of a timer leaves Quiet
Ret(op, id, arg, res) == [op |-> op, id |-> id, arg |-> arg, res |-> res]
Quiet == Ret("none", 0, "none", "none")

\* saveTask has no handler and neither has any of its callers: when the write
\* throws, the operation raises the error to whoever called it
Saved(ok) == IF ok THEN "ok" ELSE "save-error-raised"

Init ==
    /\ now = 0
    /\ nextId = 1
    /\ heap = [i \in Ids |-> NoTask]
    /\ tasks = {}
    /\ runningTasks = {}
    /\ stopFlags = {}
    /\ store = [i \in Ids |-> NoFile]
    /\ timers = <<>>
    /\ executing = [i \in Ids |-> 0]
    /\ ops = 0
    /\ called = {}
    /\ armed = {}
    /\ lastTimerCall = [i \in Ids |-> NoTime]
    /\ removed = {}
    /\ ret = Quiet
    /\ currentAttempts = [i \in Ids |-> 0]
    /\ fixStopFlags = {}
    /\ fixCalls = <<>>
    /\ fixRuns = [i \in Ids |-> 0]
    /\ stopAsked = {}
    /\ permissions = [k \in {} |-> "none"]
    /\ pendingRequests = [r \in {} |-> "none"]
    /\ nextReq = 1
    /\ permFile = [k \in {} |-> "none"]
    /\ alwaysGranted = {}
    /\ sessionFiles = [k \in {} |-> <<>>]
    /\ currentSession = NoSession
    /\ stamp = 0

\* an operation that returns a failure or throws before changing anything
Failed ==
    /\ called' = {}
    /\ armed' = {}
    /\ UNCHANGED <<now, prog, ops, lastTimerCall, removed, others>>

\* one more operation of a front end (or a restart) within the model's budget;
\* no timer called runTask in this step
Op ==
    /\ ops < MaxOps
    /\ ops' = ops + 1
    /\ called' = {}
    /\ UNCHANGED <<now, lastTimerCall, others>>

\* ---- the Runner ----------------------------------------------------------
\* (mutation: the stop-flag guard left out)
PassesWithoutStopGuard(id) == id \in tasks /\ id \notin runningTasks

\* (mutation: the in-flight guard left out)
PassesWithoutInFlightGuard(id) == id \in tasks /\ id \notin stopFlags

\* the three guards of runTask
Passes(id) == id \in tasks /\ id \notin runningTasks /\ id \notin stopFlags

\* runTask up to the await of the collaborator
runTask(id) ==
    IF Passes(id)
    THEN /\ runningTasks' = runningTasks \cup {id}
         /\ executing' = [executing EXCEPT ![id] = @ + 1]
    ELSE UNCHANGED <<runningTasks, executing>>

\* the statistics runTask records when the collaborator call settles
\* a Runner that also moves nextRun on when it records a run
RecordedMovingNextRun(task, outcome, t) ==
    [task EXCEPT !.lastRun = t, !.runCount = @ + 1,
                 !.successCount = IF outcome # "throw" THEN @ + 1 ELSE @,
                 !.failureCount = IF outcome # "ok" THEN @ + 1 ELSE @,
                 !.nextRun = t + CronPollTicks]

Recorded(task, outcome, t) ==
    IF outcome = "throw" THEN
        [task EXCEPT !.lastRun = t, !.runCount = @ + 1,
                     !.failureCount = @ + 1]
    ELSE IF outcome = "error" THEN
        [task EXCEPT !.lastRun = t, !.runCount = @ + 1,
                     !.successCount = @ + 1, !.failureCount = @ + 1]
    ELSE
        [task EXCEPT !.lastRun = t, !.runCount = @ + 1,
                     !.successCount = @ + 1]

Outcomes == {"ok", "error", "throw"}

\* `schedule run <id>`: runTask called by a front end
RunManual(id) ==
    /\ Op
    /\ runTask(id)
    /\ armed' = {}
    /\ ret' = Ret("run", id, "none", IF Passes(id) THEN "started" ELSE "skipped")
    /\ UNCHANGED <<nextId, heap, tasks, stopFlags, store, timers, removed>>

\* the rest of runTask: try / catch / finally after the await; io is whether
\* the store takes the write
Complete(id, outcome, io) ==
    /\ executing[id] > 0
    /\ heap' = [heap EXCEPT ![id] = Recorded(heap[id], outcome, now)]
    /\ executing' = [executing EXCEPT ![id] = @ - 1]
    /\ runningTasks' = runningTasks \ {id}
    /\ store' = saveTask(store, id, heap'[id], SaveOk(timers, id) /\ io)
    /\ ret' = Ret("complete", id, outcome, Saved(SaveOk(timers, id) /\ io))
    /\ called' = {}
    /\ armed' = {}
    /\ UNCHANGED <<now, nextId, tasks, stopFlags, timers, ops, lastTimerCall,
                   removed, others>>

\* ---- the dispatch engine -------------------------------------------------
RemoveAt(ts, i) ==
    [j \in 1..(Len(ts) - 1) |-> IF j < i THEN ts[j] ELSE ts[j + 1]]

\* a due timer calls back: the one-shot timeout and the heartbeat interval
\* call runTask, the cron poller (runCron) calls it when every field matches
Fire(i) ==
    LET tm == timers[i]
        id == tm.task
        calls == tm.kind # "cron" \/ CronMatches(heap[id].cron, now)
    IN  /\ tm.due <= now
        \* a timer whose period is below one tick is followed for MaxRuns runs
        /\ tm.period > 0 \/ heap[id].runCount < MaxRuns
        /\ timers' = IF tm.kind = "timeout" THEN RemoveAt(timers, i)
                     ELSE [timers EXCEPT ![i].due = @ + tm.period]
        /\ IF calls
           THEN /\ runTask(id)
                /\ called' = {id}
                /\ lastTimerCall' = [lastTimerCall EXCEPT ![id] = now]
           ELSE /\ called' = {}
                /\ UNCHANGED <<runningTasks, executing, lastTimerCall>>
        /\ armed' = {}
        /\ ret' = Quiet
        /\ UNCHANGED <<now, nextId, heap, tasks, stopFlags, store, ops, removed,
                       others>>

\* time passes when no timer is due
Tick ==
    /\ now < MaxTime
    /\ \A i \in TimerIdx : timers[i].due > now
    /\ now' = now + 1
    /\ called' = {}
    /\ armed' = {}
    /\ ret' = Quiet
    /\ UNCHANGED <<prog, ops, lastTimerCall, removed, others>>

\* ---- the registry --------------------------------------------------------
NewTask(p, parsed) ==
    [type |-> parsed.type, schedule |-> p,
     interval |-> IF parsed.interval > 0 THEN parsed.interval ELSE NoTime,
     cron |-> parsed.cron, datetime |-> parsed.datetime, enabled |-> TRUE,
     lastRun |-> NoTime, nextRun |-> NoTime,
     runCount |-> 0, successCount |-> 0, failureCount |-> 0]

addTask(p, io) ==
    /\ nextId <= MaxTasks
    /\ LET parsed == parseSchedule(p)
           id == nextId
           task == NewTask(p, parsed)
           ok == SaveOk(timers, id) /\ io
       IN  IF parsed = NoMatch
           THEN Failed /\ ret' = Ret("add", id, p, "invalid-schedule")
           ELSE /\ Op
                /\ nextId' = nextId + 1
                /\ tasks' = tasks \cup {id}
                /\ store' = saveTask(store, id, task, ok)
                /\ ret' = Ret("add", id, p, Saved(ok))
                /\ IF ok /\ ShouldArm(task)
                   THEN /\ timers' = scheduleTimers(timers, id, task, now)
                        /\ heap' = [heap EXCEPT ![id] = scheduleTask(task, now)]
                        /\ armed' = IF Arms(task, now) THEN {id} ELSE {}
                   ELSE /\ timers' = timers
                        /\ heap' = [heap EXCEPT ![id] = task]
                        /\ armed' = {}
                /\ UNCHANGED <<runningTasks, stopFlags, executing, removed>>

removeTask(id) ==
    IF id \notin tasks THEN Failed /\ ret' = Ret("remove", id, "none", "not-found")
    ELSE /\ Op
         /\ ret' = Ret("remove", id, "none", "ok")
         /\ timers' = stopTimers(timers, id)
         /\ runningTasks' = runningTasks \ {id}
         /\ tasks' = tasks \ {id}
         /\ store' = [store EXCEPT ![id] = NoFile]
         /\ removed' = removed \cup {id}
         /\ armed' = {}
         /\ UNCHANGED <<nextId, heap, stopFlags, executing>>

pauseTask(id, io) ==
    IF id \notin tasks THEN Failed /\ ret' = Ret("pause", id, "none", "not-found")
    ELSE /\ Op
         /\ heap' = [heap EXCEPT ![id].enabled = FALSE]
         /\ timers' = stopTimers(timers, id)
         /\ runningTasks' = runningTasks \ {id}
         /\ store' = saveTask(store, id, heap'[id], SaveOk(timers', id) /\ io)
         /\ ret' = Ret("pause", id, "none", Saved(SaveOk(timers', id) /\ io))
         /\ armed' = {}
         /\ UNCHANGED <<nextId, tasks, stopFlags, executing, removed>>

resumeTask(id, io) ==
    IF id \notin tasks THEN Failed /\ ret' = Ret("resume", id, "none", "not-found")
    ELSE LET task == [heap[id] EXCEPT !.enabled = TRUE]
         IN  /\ Op
             /\ IF ShouldArm(task)
                THEN /\ timers' = scheduleTimers(timers, id, task, now)
                     /\ heap' = [heap EXCEPT ![id] = scheduleTask(task, now)]
                     /\ armed' = IF Arms(task, now) THEN {id} ELSE {}
                ELSE /\ timers' = timers
                     /\ heap' = [heap EXCEPT ![id] = task]
                     /\ armed' = {}
             /\ store' = saveTask(store, id, heap'[id], SaveOk(timers', id) /\ io)
             /\ ret' = Ret("resume", id, "none", Saved(SaveOk(timers', id) /\ io))
             /\ UNCHANGED <<nextId, tasks, runningTasks, stopFlags, executing,
                            removed>>

\* (mutation: the stop request aborts the invocation that is executing)
requestStopAborting(id) ==
    /\ id < nextId
    /\ Op
    /\ stopFlags' = stopFlags \cup {id}
    /\ runningTasks' = runningTasks \ {id}
    /\ executing' = [executing EXCEPT ![id] = 0]
    /\ armed' = {}
    /\ ret' = Ret("stop", id, "none", "undefined")
    /\ UNCHANGED <<nextId, heap, tasks, store, timers, removed>>

\* the id is one generateId has produced: a front end names a task it was given
requestStop(id) ==
    /\ id < nextId
    /\ Op
    /\ stopFlags' = stopFlags \cup {id}
    /\ runningTasks' = runningTasks \ {id}
    /\ armed' = {}
    /\ ret' = Ret("stop", id, "none", "undefined")
    /\ UNCHANGED <<nextId, heap, tasks, store, timers, executing, removed>>

shutdown ==
    /\ Op
    /\ timers' = SelectSeq(timers, LAMBDA x : ~(x.task \in tasks /\ x.held))
    /\ runningTasks' = runningTasks \ tasks
    /\ armed' = {}
    /\ ret' = Ret("shutdown", 0, "none", "undefined")
    /\ UNCHANGED <<nextId, heap, tasks, stopFlags, store, executing, removed>>

\* ---- restart: the process ends, a new one constructs the Scheduler ------
\* a file of the store whose content is not a record (JSON.parse throws)
Corrupt == [type |-> "corrupt"]

\* loadTasks reads the files in name order inside one try: the first file
\* that does not parse ends the loop, the records before it are loaded
LoadedIds(st) ==
    {id \in Ids : /\ st[id] # NoFile
                  /\ \A j \in 1..id : st[j] # Corrupt}

\* (mutation: every loaded record is armed, whatever its enabled flag and type)
LoadArmAnyRecord(st, ts, id) ==
    IF id \in LoadedIds(st)
    THEN scheduleTimers(ts, id, st[id], now) ELSE ts

LoadArm(st, ts, id) ==
    IF id \in LoadedIds(st) /\ ShouldArm(st[id])
    THEN scheduleTimers(ts, id, st[id], now) ELSE ts

RECURSIVE LoadTimers(_, _)
LoadTimers(st, n) ==
    IF n = 0 THEN <<>> ELSE LoadArm(st, LoadTimers(st, n - 1), n)

loadTasks(st, id) ==
    IF id \notin LoadedIds(st) THEN NoTask
    ELSE IF ShouldArm(st[id]) THEN scheduleTask(st[id], now)
    ELSE st[id]

\* the process ends and a new one constructs the Scheduler over the store it
\* finds; lost are the files whose content was damaged in between
Restart(lost) ==
    /\ Op
    /\ lost \subseteq {id \in Ids : store[id] # NoFile}
    /\ store' = [id \in Ids |-> IF id \in lost THEN Corrupt ELSE store[id]]
    /\ tasks' = LoadedIds(store')
    /\ heap' = [id \in Ids |-> loadTasks(store', id)]
    /\ timers' = LoadTimers(store', MaxTasks)
    /\ runningTasks' = {}
    /\ stopFlags' = {}
    /\ executing' = [id \in Ids |-> 0]
    /\ armed' = {id \in LoadedIds(store') : ShouldArm(store'[id])
                                           /\ Arms(store'[id], now)}
    /\ ret' = Ret("restart", 0, lost, "ok")
    /\ UNCHANGED <<nextId, removed>>

\* one process lifetime: every step but a restart
NextLive ==
    \/ \E p \in Phrases : addTask(p, TRUE)
    \/ \E id \in Ids : removeTask(id)
    \/ \E id \in Ids : pauseTask(id, TRUE)
    \/ \E id \in Ids : resumeTask(id, TRUE)
    \/ \E id \in Ids : requestStop(id)
    \/ shutdown
    \/ \E id \in Ids : RunManual(id)
    \/ \E id \in Ids, outcome \in Outcomes : Complete(id, outcome, TRUE)
    \/ \E i \in TimerIdx : Fire(i)
    \/ Tick

Next == NextLive \/ Restart({})

Spec == Init /\ [][Next]_vars

SpecLive == Init /\ [][NextLive]_vars

\* the same program with a store that can refuse a write and lose a file's
\* content
NextFaults ==
    \/ \E p \in Phrases, io \in BOOLEAN : addTask(p, io)
    \/ \E id \in Ids : removeTask(id)
    \/ \E id \in Ids, io \in BOOLEAN : pauseTask(id, io)
    \/ \E id \in Ids, io \in BOOLEAN : resumeTask(id, io)
    \/ \E id \in Ids : requestStop(id)
    \/ shutdown
    \/ \E id \in Ids : RunManual(id)
    \/ \E id \in Ids, outcome \in Outcomes, io \in BOOLEAN :
          Complete(id, outcome, io)
    \/ \E i \in TimerIdx : Fire(i)
    \/ Tick
    \/ \E lost \in SUBSET Ids : Restart(lost)

SpecFaults == Init /\ [][NextFaults]_vars

\* a parser whose regular expressions remember the last match: the same
\* text parsed twice in a row does not match the second time
parseTextSticky(text) ==
    /\ Failed
    /\ ret' = Ret("parse", 0, text,
                  IF ret.op = "parse" /\ ret.arg = text /\ ret.res # NoMatch
                  THEN NoMatch ELSE parseSchedule(Scanned[text]))

\* a summary that hands out the task object itself, timer handles included
SummaryWithHandles(id) ==
    [id |-> id, type |-> heap[id].type, schedule |-> heap[id].schedule,
     enabled |-> heap[id].enabled, lastRun |-> heap[id].lastRun,
     nextRun |-> heap[id].nextRun, runCount |-> heap[id].runCount,
     successCount |-> heap[id].successCount,
     failureCount |-> heap[id].failureCount,
     interval |-> heap[id].interval, cron |-> heap[id].cron,
     datetime |-> heap[id].datetime, intervalId |-> HeldTimersOf(id)]

\* the summary listTasks gives of a task (the name of a task is not modelled)
Summary(id) ==
    [id |-> id, type |-> heap[id].type, schedule |-> heap[id].schedule,
     enabled |-> heap[id].enabled, lastRun |-> heap[id].lastRun,
     nextRun |-> heap[id].nextRun, runCount |-> heap[id].runCount,
     successCount |-> heap[id].successCount,
     failureCount |-> heap[id].failureCount]

listTasks ==
    /\ Failed
    /\ ret' = Ret("list", 0, "none", [id \in tasks |-> Summary(id)])

\* the scheduler with a front end that also lists the tasks
NextList == Next \/ listTasks

SpecList == Init /\ [][NextList]_vars

\* parseSchedule called on a text, as addTask calls it first
parseText(text) ==
    /\ Failed
    /\ ret' = Ret("parse", 0, text, parseSchedule(Scanned[text]))

\* the parser on its own: texts are parsed, and added so that the parser
\* runs in different scheduler states
NextParse ==
    \/ \E text \in Texts : addTask(Scanned[text], TRUE)
    \/ \E text \in Texts : parseText(text)

SpecParse == Init /\ [][NextParse]_vars

\* the scheduler given schedule texts: adds and the timers they arm
NextText ==
    \/ \E text \in Texts : addTask(Scanned[text], TRUE)
    \/ \E id \in Ids, outcome \in Outcomes : Complete(id, outcome, TRUE)
    \/ \E i \in TimerIdx : Fire(i)
    \/ Tick

SpecText == Init /\ [][NextText]_vars

\* ---- the cron matcher on its own -----------------------------------------
\* fields of each supported form, and the values a field of the clock takes
CronForms ==
    {Wild, Lit(0), Lit(5), Lit(30), List(<<1, 3, 5>>), List(<<0, 30>>),
     List(<<10, 11>>), Range(1, 5), Range(0, 0), Range(10, 20), Step(1),
     Step(2), Step(7), Step(15)}
FieldValues == 0..59

\* matches(field, value) called on the text of a field, in the scheduler as
\* constructed
matchField(form, value) ==
    /\ nextId = 1 /\ now = 0
    /\ Failed
    /\ ret' = Ret("matches", value, form, matchesText(FieldText(form), value))

\* the schedule texts that give a cron
CronTexts == {text \in Texts : Scanned[text].g \in {"daily", "weekly", "monthly"}}

\* the cron tasks with their one-minute polls, and the matcher on its own
NextCron ==
    \/ \E form \in CronForms, value \in FieldValues : matchField(form, value)
    \/ \E text \in CronTexts : addTask(Scanned[text], TRUE)
    \/ \E id \in Ids, outcome \in Outcomes : Complete(id, outcome, TRUE)
    \/ \E i \in TimerIdx : Fire(i)
    \/ Tick

SpecCron == Init /\ [][NextCron]_vars

\* ---- the auto-fixer (AutoFix) --------------------------------------------
\* a check of the attempt limit that lets one attempt too many through
AtLimitOffByOne(attempts) == attempts > maxAttempts

\* attemptFix's first guard
AtLimit(attempts) == attempts >= maxAttempts

\* what executeFix can come to: it resolves with success, resolves with
\* failure, or rejects
FixOutcomes == {"success", "failure", "throw"}

\* a step of the auto-fixer leaves the scheduler alone
FixFrame == UNCHANGED <<sched, perms, sess>>

\* attemptFix up to its await of executeFix
attemptFix(id) ==
    LET attempts == currentAttempts[id]
    IN  /\ FixFrame
        /\ stopAsked' = stopAsked \ {id}
        /\ IF AtLimit(attempts) THEN
               /\ ret' = Ret("attemptFix", id, attempts, "maximum-attempts-reached")
               /\ UNCHANGED <<currentAttempts, fixStopFlags, fixCalls, fixRuns>>
           ELSE IF id \in fixStopFlags THEN
               /\ fixStopFlags' = fixStopFlags \ {id}
               /\ ret' = Ret("attemptFix", id, attempts, "stopped-by-user")
               /\ UNCHANGED <<currentAttempts, fixCalls, fixRuns>>
           ELSE
               /\ Len(fixCalls) < MaxCalls
               /\ currentAttempts' = [currentAttempts EXCEPT ![id] = attempts + 1]
               /\ fixCalls' = Append(fixCalls, [id |-> id, attempts |-> attempts])
               /\ fixRuns' = [fixRuns EXCEPT ![id] = @ + 1]
               /\ ret' = Ret("attemptFix", id, attempts, "executing")
               /\ UNCHANGED fixStopFlags

\* executeFix of the i-th waiting call settles and attemptFix returns
FixSettles(i, outcome) ==
    LET call == fixCalls[i]
    IN  /\ FixFrame
        /\ fixCalls' = RemoveAt(fixCalls, i)
        /\ IF outcome = "success"
           THEN /\ currentAttempts' = [currentAttempts EXCEPT ![call.id] = 0]
                /\ fixRuns' = [fixRuns EXCEPT ![call.id] = 0]
           ELSE UNCHANGED <<currentAttempts, fixRuns>>
        /\ ret' = Ret("fixSettles", call.id, outcome,
                      [success |-> outcome = "success",
                       attempts |-> call.attempts + 1,
                       canRetry |-> outcome # "success"
                                    /\ call.attempts + 1 < maxAttempts])
        /\ UNCHANGED <<fixStopFlags, stopAsked>>

resetAttempts(id) ==
    /\ FixFrame
    /\ currentAttempts' = [currentAttempts EXCEPT ![id] = 0]
    /\ fixRuns' = [fixRuns EXCEPT ![id] = 0]
    /\ ret' = Ret("resetAttempts", id, "none", "undefined")
    /\ UNCHANGED <<fixStopFlags, fixCalls, stopAsked>>

\* a stop that is logged and sets no flag
stopOnlyLogged(id) ==
    /\ FixFrame
    /\ stopAsked' = stopAsked \cup {id}
    /\ ret' = Ret("fixStop", id, "none", "undefined")
    /\ UNCHANGED <<currentAttempts, fixStopFlags, fixCalls, fixRuns>>

stop(id) ==
    /\ FixFrame
    /\ fixStopFlags' = fixStopFlags \cup {id}
    /\ stopAsked' = stopAsked \cup {id}
    /\ ret' = Ret("fixStop", id, "none", "undefined")
    /\ UNCHANGED <<currentAttempts, fixCalls, fixRuns>>

clearStop(id) ==
    /\ FixFrame
    /\ fixStopFlags' = fixStopFlags \ {id}
    /\ stopAsked' = stopAsked \ {id}
    /\ ret' = Ret("clearStop", id, "none", "undefined")
    /\ UNCHANGED <<currentAttempts, fixCalls, fixRuns>>

NextFix ==
    \/ \E id \in Ids : attemptFix(id)
    \/ \E i \in 1..Len(fixCalls), outcome \in FixOutcomes : FixSettles(i, outcome)
    \/ \E id \in Ids : resetAttempts(id)
    \/ \E id \in Ids : stop(id)
    \/ \E id \in Ids : clearStop(id)

SpecFix == Init /\ [][NextFix]_vars

\* ---- permissions (PermissionManager) -------------------------------------
\* what the agent asks permission for: a type and its details
Asks ==
    {[type |-> "command_run", details |-> [command |-> "ls"]],
     [type |-> "package_install", details |-> [method |-> "npm", package |-> "yaml"]],
     [type |-> "folder_access", details |-> [path |-> "/data"]],
     [type |-> "file_delete", details |-> [path |-> "/data"]]}
PERMISSION_TYPES ==
    {"folder_access", "package_install", "command_run", "network_access"}
Levels == {"once", "always"}

generatePermissionKey(type, details) ==
    IF type = "folder_access" THEN <<type, details.path>>
    ELSE IF type = "package_install" THEN <<type, details.method, details.package>>
    ELSE IF type = "command_run" THEN <<type, details.command>>
    ELSE IF type = "network_access" THEN <<type, details.url>>
    ELSE <<type, details>>

\* m.set(k, v) and m.delete(k) of a Map
MapSet(m, k, v) == [x \in DOMAIN m \cup {k} |-> IF x = k THEN v ELSE m[x]]
MapDelete(m, k) == [x \in DOMAIN m \ {k} |-> m[x]]

\* a stored permission answers a request only when its level is 'always'
AnswersFromCache(perm) == perm.level = "always"

\* a step of the permission manager leaves the scheduler and the fixer alone
PermFrame == UNCHANGED <<sched, fixer, sess>>

requestPermission(ask) ==
    LET key == generatePermissionKey(ask.type, ask.details)
    IN  /\ PermFrame
        /\ IF ask.type \notin PERMISSION_TYPES THEN
               /\ ret' = Ret("requestPermission", 0, ask, "unknown-type-raised")
               /\ UNCHANGED perms
           ELSE IF key \in DOMAIN permissions /\ AnswersFromCache(permissions[key]) THEN
               /\ ret' = Ret("requestPermission", 0, ask,
                             [granted |-> TRUE, fromCache |-> TRUE])
               /\ UNCHANGED perms
           ELSE
               /\ nextReq <= MaxRequests
               /\ pendingRequests' = MapSet(pendingRequests, nextReq, ask)
               /\ nextReq' = nextReq + 1
               /\ ret' = Ret("requestPermission", nextReq, ask,
                             [granted |-> FALSE, fromCache |-> FALSE])
               /\ UNCHANGED <<permissions, permFile, alwaysGranted>>

\* grantPermission(requestId, {permanent, level})
grantPermission(requestId, permanent, level, io) ==
    /\ PermFrame
    /\ IF requestId \notin DOMAIN pendingRequests THEN
           /\ ret' = Ret("grantPermission", requestId,
                         [level |-> IF permanent THEN "always" ELSE level],
                         "request-not-found")
           /\ UNCHANGED perms
       ELSE
           LET request == pendingRequests[requestId]
               key == generatePermissionKey(request.type, request.details)
               permission == [type |-> request.type, details |-> request.details,
                              level |-> IF permanent THEN "always" ELSE level]
           IN  /\ permissions' = MapSet(permissions, key, permission)
               /\ IF io THEN
                      /\ permFile' = permissions'
                      /\ pendingRequests' = MapDelete(pendingRequests, requestId)
                      /\ alwaysGranted' =
                             IF permission.level = "always"
                             THEN alwaysGranted \cup {request}
                             ELSE alwaysGranted
                      /\ ret' = Ret("grantPermission", requestId,
                                    [level |-> permission.level, ask |-> request],
                                    "ok")
                  ELSE
                      /\ ret' = Ret("grantPermission", requestId,
                                    [level |-> permission.level, ask |-> request],
                                    "write-raised")
                      /\ UNCHANGED <<permFile, pendingRequests, alwaysGranted>>
               /\ UNCHANGED nextReq

\* a denial that answers but leaves the request pending
denyPermissionKeepingPending(requestId) ==
    /\ PermFrame
    /\ ret' = Ret("denyPermission", requestId, "none",
                  IF requestId \in DOMAIN pendingRequests
                  THEN "ok" ELSE "request-not-found")
    /\ UNCHANGED perms

denyPermission(requestId) ==
    /\ PermFrame
    /\ IF requestId \notin DOMAIN pendingRequests THEN
           /\ ret' = Ret("denyPermission", requestId, "none", "request-not-found")
           /\ UNCHANGED perms
       ELSE
           /\ pendingRequests' = MapDelete(pendingRequests, requestId)
           /\ ret' = Ret("denyPermission", requestId, "none", "ok")
           /\ UNCHANGED <<permissions, nextReq, permFile, alwaysGranted>>

revokePermission(ask, io) ==
    LET key == generatePermissionKey(ask.type, ask.details)
    IN  /\ PermFrame
        /\ alwaysGranted' = alwaysGranted \ {ask}
        /\ IF key \in DOMAIN permissions THEN
               /\ permissions' = MapDelete(permissions, key)
               /\ permFile' = IF io THEN permissions' ELSE permFile
               /\ ret' = Ret("revokePermission", 0, ask,
                             IF io THEN "ok" ELSE "write-raised")
               /\ UNCHANGED <<pendingRequests, nextReq>>
           ELSE
               /\ ret' = Ret("revokePermission", 0, ask, "permission-not-found")
               /\ UNCHANGED <<permissions, pendingRequests, nextReq, permFile>>

clearAllPermissions(io) ==
    /\ PermFrame
    /\ permissions' = [k \in {} |-> "none"]
    /\ permFile' = IF io THEN permissions' ELSE permFile
    /\ alwaysGranted' = {}
    /\ ret' = Ret("clearAllPermissions", 0, "none",
                  IF io THEN "undefined" ELSE "write-raised")
    /\ UNCHANGED <<pendingRequests, nextReq>>

\* the process starts again: the constructor's loadPermissions
loadPermissions ==
    /\ PermFrame
    /\ permissions' = permFile
    /\ pendingRequests' = [r \in {} |-> "none"]
    /\ ret' = Ret("loadPermissions", 0, "none", "undefined")
    /\ UNCHANGED <<nextReq, permFile, alwaysGranted>>

NextPerm ==
    \/ \E ask \in Asks : requestPermission(ask)
    \/ \E r \in 1..MaxRequests, permanent \in BOOLEAN, level \in Levels,
          io \in BOOLEAN : grantPermission(r, permanent, level, io)
    \/ \E r \in 1..MaxRequests : denyPermission(r)
    \/ \E ask \in Asks, io \in BOOLEAN : revokePermission(ask, io)
    \/ \E io \in BOOLEAN : clearAllPermissions(io)
    \/ loadPermissions

SpecPerm == Init /\ [][NextPerm]_vars

\* ---- session history as markdown (SessionManager) ------------------------
\* the texts of formatSessionAsMarkdown and parseSessionFile, as characters
Markdown ==
    [nl |-> <<"\n">>,
     session |-> <<"#", " ", "S", "e", "s", "s", "i", "o", "n", ":">>,
     created |-> <<"C", "r", "e", "a", "t", "e", "d", ":">>,
     lastActive |-> <<"L", "a", "s", "t", " ", "A", "c", "t", "i", "v", "e", ":">>,
     metadata |-> <<"#", "#", " ", "M", "e", "t", "a", "d", "a", "t", "a">>,
     total |-> <<"-", " ", "T", "o", "t", "a", "l", " ", "M", "e", "s", "s", "a", "g", "e", "s", ":", " ">>,
     skills |-> <<"-", " ", "S", "k", "i", "l", "l", "s", " ", "U", "s", "e", "d", ":", " ", "N", "o", "n", "e">>,
     messages |-> <<"#", "#", " ", "M", "e", "s", "s", "a", "g", "e", "s">>,
     message |-> <<"#", "#", "#", " ">>,
     none |-> <<"_", "N", "o", " ", "m", "e", "s", "s", "a", "g", "e", "s", " ", "y", "e", "t", "_">>]

\* the session ids the front ends pass: 'cli' and a chat id
SessionIds == {<<"c", "l", "i">>, <<"4", "2">>}
\* the roles the agent records
Roles == {<<"u", "s", "e", "r">>, <<"a", "s", "s", "i", "s", "t", "a", "n", "t">>}
\* message contents: 'hi', 'ok' and the two-line 'a\nb'
Contents == {<<"h", "i">>, <<"o", "k">>, <<"a", "\n", "b">>}

\* str.startsWith(prefix)
startsWith(str, prefix) ==
    Len(str) >= Len(prefix) /\ SubSeq(str, 1, Len(prefix)) = prefix

\* str.indexOf(sub) + 1, 0 when sub does not occur
positionOf(str, sub) ==
    LET at == {i \in 1..(Len(str) - Len(sub) + 1) :
                  SubSeq(str, i, i + Len(sub) - 1) = sub}
    IN  IF at = {} THEN 0 ELSE MinOf(at)

\* str.replace(sub, by) with a string pattern: the first occurrence only
replace(str, sub, by) ==
    LET at == positionOf(str, sub)
    IN  IF at = 0 THEN str
        ELSE SubSeq(str, 1, at - 1) \o by \o SubSeq(str, at + Len(sub), Len(str))

\* str.split(sep) with a separator of several characters
RECURSIVE splitOn(_, _)
splitOn(str, sep) ==
    LET at == positionOf(str, sep)
    IN  IF at = 0 THEN <<str>>
        ELSE <<SubSeq(str, 1, at - 1)>>
                 \o splitOn(SubSeq(str, at + Len(sep), Len(str)), sep)

\* capitalize: str.charAt(0).toUpperCase() + str.slice(1)
capitalize(str) ==
    IF str = <<>> THEN <<>>
    ELSE IF \E k \in 1..Len(Lower) : Lower[k] = str[1]
    THEN <<Upper[CHOOSE k \in 1..Len(Lower) : Lower[k] = str[1]]>> \o Tail(str)
    ELSE str

\* createNewSession; t is new Date().toISOString()
createNewSession(sessionId, t) ==
    [id |-> sessionId, created |-> t, lastActive |-> t, messages |-> <<>>]

RECURSIVE FormatMessages(_, _)
FormatMessages(messages, t) ==
    IF messages = <<>> THEN <<>>
    ELSE LET msg == Head(messages)
             timestamp == IF msg.timestamp = <<>> THEN t ELSE msg.timestamp
         IN  Markdown.message \o capitalize(msg.role) \o <<" ", "(">> \o timestamp
                 \o <<")">> \o Markdown.nl \o Markdown.nl
                 \o msg.content \o Markdown.nl \o Markdown.nl
                 \o FormatMessages(Tail(messages), t)

\* formatSessionAsMarkdown; no skill is recorded, so 'Skills Used' is 'None'
formatSessionAsMarkdown(session, t) ==
    Markdown.session \o <<" ">> \o session.id \o Markdown.nl \o Markdown.nl
        \o Markdown.created \o <<" ">> \o session.created \o Markdown.nl
        \o Markdown.lastActive \o <<" ">> \o session.lastActive \o Markdown.nl \o Markdown.nl
        \o Markdown.metadata \o Markdown.nl \o Markdown.nl
        \o Markdown.total \o Numeral(Len(session.messages)) \o Markdown.nl
        \o Markdown.skills \o Markdown.nl \o Markdown.nl
        \o Markdown.messages \o Markdown.nl \o Markdown.nl
        \o (IF Len(session.messages) > 0
            THEN FormatMessages(session.messages, t)
            ELSE Markdown.none \o Markdown.nl \o Markdown.nl)

\* section = ''
NoSection == [role |-> <<>>, timestamp |-> <<>>, set |-> FALSE]

\* the body of the loop of parseSessionFile for one line; acc holds
\* session, section and inMessages
ParseLine(acc, line) ==
    IF startsWith(line, Markdown.session)
    THEN [acc EXCEPT !.session.id = trim(replace(line, Markdown.session, <<>>))]
    ELSE IF startsWith(line, Markdown.created)
    THEN [acc EXCEPT !.session.created = trim(replace(line, Markdown.created, <<>>))]
    ELSE IF startsWith(line, Markdown.lastActive)
    THEN [acc EXCEPT !.session.lastActive =
                         trim(replace(line, Markdown.lastActive, <<>>))]
    ELSE IF startsWith(line, Markdown.messages)
    THEN [acc EXCEPT !.inMessages = TRUE]
    ELSE IF startsWith(line, Markdown.message)
    THEN LET parts == splitOn(replace(line, Markdown.message, <<>>), <<" ", "(">>)
         IN  IF Len(parts) >= 2
             THEN [acc EXCEPT !.section =
                      [role |-> toLowerCase(parts[1]),
                       timestamp |-> trim(replace(parts[2], <<")">>, <<>>)),
                       set |-> TRUE]]
             ELSE acc
    ELSE IF acc.inMessages /\ trim(line) # <<>> /\ acc.section.set
    THEN [acc EXCEPT !.session.messages =
             Append(@, [role |-> acc.section.role, content |-> trim(line),
                        timestamp |-> acc.section.timestamp])]
    ELSE acc

RECURSIVE ParseLines(_, _)
ParseLines(acc, lines) ==
    IF lines = <<>> THEN acc
    ELSE ParseLines(ParseLine(acc, Head(lines)), Tail(lines))

\* parseSessionFile
parseSessionFile(content) ==
    ParseLines([session |-> NoSession, section |-> NoSection,
                inMessages |-> FALSE],
               split(content, "\n")).session

\* getSession with persistence enabled: the session of the file if there is
\* one, else a new session, which is saved
LoadedSession(sessionId) ==
    IF sessionId \in DOMAIN sessionFiles
    THEN parseSessionFile(sessionFiles[sessionId])
    ELSE createNewSession(sessionId, Numeral(stamp))

SessFrame == UNCHANGED <<sched, fixer, perms>>

getSession(sessionId) ==
    LET session == LoadedSession(sessionId)
    IN  /\ SessFrame
        /\ currentSession' = session
        /\ sessionFiles' =
               IF sessionId \in DOMAIN sessionFiles THEN sessionFiles
               ELSE MapSet(sessionFiles, sessionId,
                           formatSessionAsMarkdown(session, Numeral(stamp)))
        /\ ret' = Ret("getSession", 0, sessionId, "session")
        /\ UNCHANGED stamp

\* addMessage: getSession, push, saveSession
addMessage(sessionId, role, content) ==
    LET session == LoadedSession(sessionId)
        pushed == [session EXCEPT
                      !.messages = Append(@, [role |-> role, content |-> content,
                                              timestamp |-> Numeral(stamp)]),
                      !.lastActive = Numeral(stamp)]
    IN  /\ stamp < MaxMessages
        /\ SessFrame
        /\ currentSession' = pushed
        /\ sessionFiles' = MapSet(sessionFiles, sessionId,
                                  formatSessionAsMarkdown(pushed, Numeral(stamp)))
        /\ stamp' = stamp + 1
        /\ ret' = Ret("addMessage", 0, sessionId, "session")

NextSession ==
    \/ \E sessionId \in SessionIds : getSession(sessionId)
    \/ \E sessionId \in SessionIds, role \in Roles, content \in Contents :
           addMessage(sessionId, role, content)

SpecSession == Init /\ [][NextSession]_vars

\* ==== properties ==========================================================
Exists(id) == heap[id] # NoTask

\* C1: at most one Runner invocation of a task id is between "marked
\* in-flight" and "completed" at any instant
C1_NoOverlap == \A id \in Ids : executing[id] <= 1

\* C2: runCount = successCount + failureCount for every task, whatever the
\* outcomes of its completed runs
C2_CountersAddUp ==
    \A id \in Ids : Exists(id) =>
        heap[id].runCount = heap[id].successCount + heap[id].failureCount

\* C3: a task whose enabled flag is false has no armed timer
C3_DisabledNotArmed ==
    \A id \in tasks : ~heap[id].enabled => TimersOf(id) = {}

\* C4: addTask of a one-time task whose target instant is later than now arms
\* a one-shot timeout for it
C4_FutureOneTimeArmed ==
    [][\A id \in Ids :
          (nextId = id /\ nextId' = id + 1 /\ heap'[id].type = "one-time"
             /\ DateTicks(heap'[id].datetime) > now)
          => (id \in armed'
              /\ \E i \in 1..Len(timers') :
                    timers'[i].task = id /\ timers'[i].kind = "timeout")]_vars

\* C5: a timer calls the Runner for a one-time task at most once over the
\* life of its record; a one-time task is armed only while its target instant
\* is in the future, and once the instant has passed no timer exists for it
C5_OneTimeAtMostOnce ==
    [][\A id \in Ids :
          (heap'[id] # NoTask /\ heap'[id].type = "one-time") =>
             /\ id \in called' => lastTimerCall[id] = NoTime
             /\ id \in armed' => DateTicks(heap'[id].datetime) > now
             /\ DateTicks(heap'[id].datetime) < now' => TimersOf(id)' = {}]_vars

C5_Witness ==
    \E id \in tasks :
        /\ heap[id].type = "one-time" /\ heap[id].enabled
        /\ DateTicks(heap[id].datetime) < now
        /\ ops >= 2
        /\ TimersOf(id) = {}
        /\ lastTimerCall[id] = NoTime

\* the first tick of the minute a daily cron names
CronMinuteStart(cron) == (cron[3].n * 60 + cron[2].n) * TicksPerMinute

\* C6: an enabled recurring task that was armed before its matching minute
\* began, and is still armed, has been called by its poller within 60 seconds
\* of the start of that minute
C6_CronFiresInMinute ==
    \A id \in tasks :
        (/\ heap[id].type = "recurring" /\ heap[id].enabled
         /\ HasLiveHandle(id)
         /\ heap[id].nextRun - CronPollTicks < CronMinuteStart(heap[id].cron)
         /\ now >= CronMinuteStart(heap[id].cron) + TicksPerMinute)
        => lastTimerCall[id] >= CronMinuteStart(heap[id].cron)

\* C7: two consecutive timer calls of the Runner for a heartbeat task are at
\* least its interval apart
C7_HeartbeatSpacing ==
    [][\A id \in Ids :
          (id \in called' /\ heap[id].type = "heartbeat"
             /\ lastTimerCall[id] # NoTime)
          => now - lastTimerCall[id] >= IntervalTicks(heap[id])]_vars

\* C8: while a heartbeat or recurring task is paused, no timer starts a
\* Runner invocation for it
C8_PausedNotStarted ==
    [][\A id \in tasks :
          (heap[id].type \in {"heartbeat", "recurring"} /\ ~heap[id].enabled
             /\ ~heap'[id].enabled)
          => ~(id \in called' /\ executing'[id] > executing[id])]_vars

C10_RemovedStaysGone ==
    \A id \in removed :
        id \notin tasks /\ store[id] = NoFile /\ TimersOf(id) = {}

\* the step in which an invocation of id settles (runTask past its await)
Settles(id) == ret'.op = "complete" /\ ret'.id = id

\* C11: each completed Runner invocation adds exactly 1 to runCount and to
\* exactly one outcome counter: successCount when the payload has no error
\* field, failureCount alone when it has one or the collaborator throws
C11_OneOutcomeCounter ==
    [][\A id \in Ids : Settles(id) =>
          /\ heap'[id].runCount = heap[id].runCount + 1
          /\ IF ret'.arg = "ok"
             THEN /\ heap'[id].successCount = heap[id].successCount + 1
                  /\ heap'[id].failureCount = heap[id].failureCount
             ELSE /\ heap'[id].successCount = heap[id].successCount
                  /\ heap'[id].failureCount = heap[id].failureCount + 1]_vars

\* C12: every Runner invocation that passed the guards ends with the
\* in-flight marker of its id cleared and the updated record (lastRun and
\* counters) written to the store, whether the collaborator returned or threw
C12_RunAlwaysRecorded ==
    [][\A id \in Ids : Settles(id) =>
          /\ id \notin runningTasks'
          /\ store'[id] = Serialize(heap'[id])]_vars

\* C13: a write of a task record that fails does not propagate: a Runner
\* invocation does not raise it, and after an add, pause or resume that met
\* it the task it was called for, if it is in the map, enabled and recurring
\* or heartbeat, is armed
C13_SaveFailureContained ==
    [][/\ ret'.op = "complete" => ret'.res # "save-error-raised"
       /\ (ret'.op \in {"add", "pause", "resume"}
             /\ ret'.res = "save-error-raised")
          => \A id \in tasks' :
                (id = ret'.id /\ ShouldArm(heap'[id]))
                => HasLiveHandle(id)']_vars

\* C14: a start that finds an unreadable record in the store leaves the
\* scheduler with an empty task map and no timer armed
C14_LoadFailureStartsEmpty ==
    [][(ret'.op = "restart" /\ \E id \in Ids : store'[id] = Corrupt)
       => (tasks' = {} /\ timers' = <<>>)]_vars

\* the nextRun scheduleTask estimates when it arms a task at tick t
NextRunEstimate(task, t) ==
    IF task.type = "heartbeat" THEN t + IntervalTicks(task)
    ELSE t + CronPollTicks

\* C15 (as stated): after a restart every record of the store is in the task
\* map with identical values for every persisted field, and is armed exactly
\* when it is enabled and not one-time
C15_RoundTripIdentical ==
    [][ret'.op = "restart" =>
          \A id \in Ids : store[id] # NoFile =>
             /\ id \in tasks'
             /\ heap'[id] = store[id]
             /\ HasLiveHandle(id)' <=> ShouldArm(store[id])]_vars

\* C15 (amended): after a restart every record of the store is in the task
\* map with identical values for every persisted field but nextRun, which is
\* estimated anew for a task that is re-armed and kept otherwise; the task is
\* armed exactly when it is enabled and not one-time
C15_RoundTrip ==
    [][ret'.op = "restart" =>
          \A id \in Ids : store[id] # NoFile =>
             /\ id \in tasks'
             /\ [heap'[id] EXCEPT !.nextRun = store[id].nextRun] = store[id]
             /\ heap'[id].nextRun =
                   IF ShouldArm(store[id])
                   THEN NextRunEstimate(store[id], now)
                   ELSE store[id].nextRun
             /\ HasLiveHandle(id)' <=> ShouldArm(store[id])
             /\ id \in armed' <=> ShouldArm(store[id])]_vars

C15_Witness ==
    /\ ret.op = "restart"
    /\ \E a, b \in tasks :
          /\ ShouldArm(heap[a]) /\ HasLiveHandle(a)
          /\ heap[a].nextRun # store[a].nextRun
          /\ ~ShouldArm(heap[b]) /\ ~HasLiveHandle(b)
          /\ heap[b] = store[b]

\* C16: when an add, a pause, a resume or a completed run has returned, the
\* record of the task in the store carries the values of the in-memory task
\* for every field of the record format
C16_StoreMirrorsMemory ==
    [][(ret'.op \in {"add", "pause", "resume", "complete"} /\ ret'.res = "ok")
       => store'[ret'.id] = Serialize(heap'[ret'.id])]_vars

\* C17: remove, pause, resume and requestStop called with an id that is not
\* in the task map return a structured failure and leave the task map, the
\* in-flight set, the stop flags, the timers and the store unchanged
C17_UnknownIdFails ==
    [][\A id \in Ids :
          (ret'.op \in {"remove", "pause", "resume", "stop"}
             /\ ret'.id = id /\ id \notin tasks)
          => /\ ret'.res = "not-found"
             /\ UNCHANGED <<tasks, runningTasks, stopFlags, timers, store>>]_vars

\* the five grammars parseSchedule tries
Grammars == {"at", "every", "daily", "weekly", "monthly"}

\* C18: addTask of a phrase that none of the five grammars matches fails with
\* the invalid-schedule error and changes nothing: no task is added to the
\* map, no record is written, no timer is armed and no id is used up
C18_InvalidPhraseChangesNothing ==
    [][(ret'.op = "add" /\ ret'.arg.g \notin Grammars)
       => /\ ret'.res = "invalid-schedule"
          /\ UNCHANGED <<nextId, heap, tasks, store, timers>>]_vars

C18_Witness ==
    /\ ret.op = "add"
    /\ ret.arg.g \notin Grammars
    /\ ret.res = "invalid-schedule"
    /\ tasks # {}
    /\ timers # <<>>
    /\ ret.id \notin tasks
    /\ store[ret.id] = NoFile

\* the step in which runTask(id) is called, by a front end or by a timer
RunRequested(id) == (ret'.op = "run" /\ ret'.id = id) \/ id \in called'

\* C19: a run requested for an id whose invocation is in flight is a no-op
\* that is not queued: it starts nothing and records nothing, and the
\* invocation in flight adds exactly 1 to runCount when it completes
C19_SecondRunNoOp ==
    [][\A id \in Ids :
          /\ (RunRequested(id) /\ id \in runningTasks)
             => UNCHANGED <<executing, runningTasks, heap, store>>
          /\ Settles(id) => heap'[id].runCount = heap[id].runCount + 1]_vars

C19_Witness ==
    /\ ret.op = "run"
    /\ ret.res = "skipped"
    /\ ret.id \in tasks
    /\ ret.id \notin stopFlags
    /\ ret.id \in runningTasks
    /\ executing[ret.id] = 1
    /\ heap[ret.id].runCount = 0

\* C20: while an invocation of task a is in flight and does not complete,
\* the timers of any other task b still start invocations of b, those
\* invocations complete (runTask returns, nothing is raised) with b's
\* statistics recorded, and only the cycles of a itself are skipped
C20_HangBlocksOnlyItself ==
    [][\A a, b \in Ids :
          (a # b /\ executing[a] > 0) =>
             /\ (b \in called' /\ b \in tasks /\ b \notin runningTasks
                   /\ b \notin stopFlags)
                => executing'[b] = executing[b] + 1
             /\ Settles(b) =>
                   /\ heap'[b].runCount = heap[b].runCount + 1
                   /\ heap'[b].lastRun = now
                   /\ ret'.res = "ok"
             /\ (a \in called' /\ a \in runningTasks)
                => executing'[a] = executing[a]]_vars

C22_ShutdownDisarmsAll == ret.op = "shutdown" => timers = <<>>

\* C23: addTask of 'every N <unit>' creates a heartbeat task whose stored
\* interval is N x 60000, N x 3600000 or N x 86400000 ms by the unit, and
\* the timer armed for it has that period
C23_EveryNUnit ==
    [][(ret'.op = "add" /\ ret'.arg.g = "every") =>
          LET id == ret'.id
              ms == ret'.arg.n * (IF ret'.arg.unit = "minute" THEN 60000
                                  ELSE IF ret'.arg.unit = "hour" THEN 3600000
                                  ELSE 86400000)
          IN  /\ ret'.res = "ok"
              /\ heap'[id].type = "heartbeat"
              /\ heap'[id].interval = ms
              /\ \E i \in 1..Len(timers') :
                    /\ timers'[i].task = id /\ timers'[i].kind = "interval"
                    /\ timers'[i].period = ms \div MsPerTick]_vars

\* the five grammars in the order parseSchedule tries them, and the type
\* each gives
GrammarRes == <<oneTimeRe, heartbeatRe, dailyRe, weeklyRe, monthlyRe>>
GrammarTypes == <<"one-time", "heartbeat", "recurring", "recurring", "recurring">>

\* the grammars the lower-cased, trimmed text matches
Matching ==
    [text \in Texts |->
        {k \in 1..Len(GrammarRes) :
            Match(GrammarRes[k], trim(toLowerCase(text))).ok}]

\* the part of the text that grammar k matches
Matched(text, k) ==
    LET str == trim(toLowerCase(text))
        m == Match(GrammarRes[k], str)
    IN  SubSeq(str, m.at, m.at + Sum(m.lens, Len(m.lens)) - 1)

\* the descriptor of the lowest-numbered grammar a text matches, read from
\* the part of the text that grammar matches
LowestAlone ==
    [text \in Texts |->
        IF Matching[text] = {} THEN NoMatch
        ELSE parseSchedule(Scan(Matched(text, MinOf(Matching[text]))))]

\* C24: the result of parsing a phrase is the descriptor (type and payload)
\* of the lowest-numbered grammar, in the order one-time, heartbeat, daily,
\* weekly, monthly, that the lower-cased, trimmed phrase matches, and it is
\* failure only when no grammar matches
C24_FirstGrammarDecides ==
    [][ret'.op = "parse" =>
          LET text == ret'.arg
          IN  IF Matching[text] = {} THEN ret'.res = NoMatch
              ELSE /\ ret'.res # NoMatch
                   /\ ret'.res.type = GrammarTypes[MinOf(Matching[text])]
                   /\ ret'.res = LowestAlone[text]]_vars

\* a phrase that two grammars match has been parsed
C24_Witness ==
    /\ ret.op = "parse"
    /\ Cardinality(Matching[ret.arg]) > 1
    /\ ret.res # NoMatch

\* the phrase 'daily at H:MM' as it is written for hour h and minute m
DailyPhrase(h, m) ==
    <<"d", "a", "i", "l", "y", " ", "a", "t", " ">> \o Numeral(h)
        \o <<":">> \o TwoDigits(m)

\* the texts given to the parser that are written 'daily at H:MM', with
\* the hour and the minute each is written for
DailyTimes == (0..23) \X (0..59)
DailyTexts ==
    {text \in Texts : \E hm \in DailyTimes : text = DailyPhrase(hm[1], hm[2])}
DailyTimeOf ==
    [text \in DailyTexts |->
        CHOOSE hm \in DailyTimes : text = DailyPhrase(hm[1], hm[2])]

\* C25: for every hour H and minute MM the phrase 'daily at H:MM' parses to
\* a recurring descriptor whose cron is '0 MM H * * *': seconds 0, minute MM,
\* hour H, and a wildcard in day of month, month and day of week
C25_DailyCron ==
    [][(ret'.op = "parse" /\ ret'.arg \in DailyTexts) =>
          LET h == DailyTimeOf[ret'.arg][1]
              m == DailyTimeOf[ret'.arg][2]
          IN  /\ ret'.res # NoMatch
              /\ ret'.res.type = "recurring"
              /\ ret'.res.cron =
                     <<Lit(0), Lit(m), Lit(h), Wild, Wild, Wild>>]_vars

\* 'daily at 9:30' has been parsed
C25_Witness ==
    /\ ret.op = "parse"
    /\ ret.arg \in DailyTexts
    /\ DailyTimeOf[ret.arg] = <<9, 30>>
    /\ ret.res # NoMatch
    /\ ret.res.type = "recurring"

\* the texts the parser accepts by the weekly grammar, and the word each
\* gives for the weekday
WeeklyTexts ==
    {text \in Texts :
        Matching[text] # {} /\ GrammarRes[MinOf(Matching[text])] = weeklyRe}
WeekdayWord ==
    [text \in WeeklyTexts |->
        LET str == trim(toLowerCase(text))
        IN  Group(str, Match(weeklyRe, str), 5)]

\* C26: every accepted phrase 'weekly on <word> at <H:MM>' gives a cron whose
\* day-of-week field is one weekday index in 0..6 (sunday = 0 .. saturday = 6),
\* the index of the weekday the phrase names, so that the only weekday the
\* field matches is that one
C26_WeeklyNamesOneWeekday ==
    [][(ret'.op = "parse" /\ ret'.arg \in WeeklyTexts) =>
          LET dow == ret'.res.cron[6]
          IN  \E d \in 0..6 :
                  /\ dow = Lit(d)
                  /\ Days[d + 1] = WeekdayWord[ret'.arg]
                  /\ {v \in 0..6 : matches(dow, v)} = {d}]_vars

\* the schedule phrases the README and the error message of add give as
\* examples, with the type of task documented for each
Examples ==
    {\* 'every 30 minutes'
     [text |-> <<"e", "v", "e", "r", "y", " ", "3", "0", " ", "m", "i", "n", "u", "t", "e", "s">>,
      type |-> "heartbeat"],
     \* 'at 2026-02-20 14:00'
     [text |-> <<"a", "t", " ", "2", "0", "2", "6", "-", "0", "2", "-", "2", "0", " ", "1", "4", ":", "0", "0">>,
      type |-> "one-time"],
     \* 'daily at 9am'
     [text |-> <<"d", "a", "i", "l", "y", " ", "a", "t", " ", "9", "a", "m">>,
      type |-> "recurring"],
     \* 'weekly on monday at 9am'
     [text |-> <<"w", "e", "e", "k", "l", "y", " ", "o", "n", " ", "m", "o", "n", "d", "a", "y", " ", "a", "t", " ", "9", "a", "m">>,
      type |-> "recurring"],
     \* 'monthly on 1 at 0:00'
     [text |-> <<"m", "o", "n", "t", "h", "l", "y", " ", "o", "n", " ", "1", " ", "a", "t", " ", "0", ":", "0", "0">>,
      type |-> "recurring"]}

\* C27: every schedule phrase given as an example is accepted by add and
\* creates a task of the documented type
C27_ExamplesAccepted ==
    [][ret'.op = "add" =>
          \A ex \in Examples :
              ret'.arg.text = ex.text =>
                  /\ ret'.res = "ok"
                  /\ heap'[ret'.id].type = ex.type]_vars

\* the descriptor each text parses to in the scheduler as constructed
ParseOf == [text \in Texts |-> parseSchedule(Scan(text))]

EveryMinute ==
    <<"e", "v", "e", "r", "y", " ", "1", " ", "m", "i", "n", "u", "t", "e">>

\* a heartbeat task that has an interval
Heartbeat(id) ==
    id \in tasks /\ heap[id].type = "heartbeat" /\ heap[id].interval # NoTime

\* C29: a heartbeat task added with interval I is not invoked before I has
\* elapsed since it was armed and is first invoked when I elapses: added with
\* 'every 1 minute' it has type heartbeat and interval 60000, its first
\* invocation comes one minute after the add and not later, and once that run
\* has completed its runCount is 1 until the next minute has elapsed
C29_HeartbeatFirstAfterInterval ==
    [][/\ (ret'.op = "add" /\ ret'.arg.text = EveryMinute) =>
             /\ heap'[ret'.id].type = "heartbeat"
             /\ heap'[ret'.id].interval = 60000
       /\ (ret'.op = "add" /\ ret'.arg.g = "every" /\ ret'.arg.n > 0) =>
             /\ heap'[ret'.id].nextRun * MsPerTick
                    = now * MsPerTick + heap'[ret'.id].interval
             /\ lastTimerCall'[ret'.id] = NoTime
       /\ \A id \in Ids :
             Heartbeat(id) =>
                 /\ id \in called' => now >= heap[id].nextRun
                 /\ (id \in called' /\ lastTimerCall[id] = NoTime) =>
                        now = heap[id].nextRun
                 /\ lastTimerCall'[id] = NoTime => now' <= heap[id].nextRun
                 /\ (/\ heap[id].interval = 60000
                     /\ lastTimerCall'[id] # NoTime
                     /\ executing'[id] = 0
                     /\ now' * MsPerTick < heap[id].nextRun * MsPerTick + 60000) =>
                        heap'[id].runCount = 1]_vars

\* a task added with 'every 1 minute' has completed its first run, one
\* minute after it was added
C29_Witness ==
    \E id \in Ids :
        /\ Heartbeat(id)
        /\ heap[id].schedule.text = EveryMinute
        /\ lastTimerCall[id] = heap[id].nextRun
        /\ now = heap[id].nextRun
        /\ executing[id] = 0
        /\ heap[id].runCount = 1

\* the fields a summary may have
PlainFields ==
    {"id", "name", "type", "schedule", "enabled", "lastRun", "nextRun",
     "runCount", "successCount", "failureCount"}

\* C30: list() is read-only: it changes no task, timer, in-flight marker,
\* stop flag or stored record, and each summary it returns, one per task,
\* holds only the plain fields id, name, type, schedule, enabled, lastRun,
\* nextRun and the three counters, with the task's values, never a timer
\* handle
C30_ListReadOnly ==
    [][ret'.op = "list" =>
          /\ UNCHANGED <<now, nextId, heap, tasks, runningTasks, stopFlags,
                         store, timers, executing>>
          /\ DOMAIN ret'.res = tasks
          /\ \A id \in tasks :
                /\ DOMAIN ret'.res[id] \subseteq PlainFields
                /\ ret'.res[id].id = id
                /\ \A f \in DOMAIN ret'.res[id] \ {"id"} :
                       ret'.res[id][f] = heap[id][f]]_vars

\* the tasks have been listed while one of them holds a timer handle and one
\* is in flight
C30_Witness ==
    /\ ret.op = "list"
    /\ \E id \in tasks : HasLiveHandle(id)
    /\ runningTasks # {}

\* the operations that write or delete a task's record
StoreOps == {"add", "pause", "resume", "complete", "remove"}

\* C31: save(task) and delete(id) touch only the record keyed by that task's
\* id: a step that saves or deletes the record of one task leaves the stored
\* record of every other task id unchanged
C31_OnlyOwnRecord ==
    [][ret'.op \in StoreOps =>
          \A other \in Ids \ {ret'.id} : store'[other] = store[other]]_vars

\* a task's record has been written while another task has a record
C31_Witness ==
    /\ ret.op \in StoreOps \ {"remove"}
    /\ ret.res = "ok"
    /\ store[ret.id] # NoFile
    /\ \E other \in Ids \ {ret.id} : store[other] \notin {NoFile, Corrupt}

\* C32: auto-fix retries are bounded: for every task id executeFix is run at
\* most 5 times between two resets of its attempt counter, the stored attempt
\* count never exceeds 5, and once 5 attempts have been made an attemptFix
\* returns the 'Maximum 5 attempts reached' failure and executes no fix
C32_RetriesBounded ==
    [][/\ \A id \in Ids :
             /\ fixRuns'[id] <= 5
             /\ currentAttempts'[id] <= 5
       /\ (ret'.op = "attemptFix" /\ fixRuns[ret'.id] >= 5) =>
             /\ ret'.res = "maximum-attempts-reached"
             /\ fixCalls' = fixCalls
             /\ UNCHANGED <<currentAttempts, fixRuns>>]_vars

\* an attemptFix has been refused after five attempts
C32_Witness ==
    /\ ret.op = "attemptFix"
    /\ ret.res = "maximum-attempts-reached"
    /\ fixRuns[ret.id] = 5

\* C33: after stop(taskId) the next attemptFix(taskId) executes no fix and
\* does not increase the attempt counter, and other task ids are unaffected:
\* the stop and the refused attempt change no counter, flag or waiting call
\* of another id, and an attempt for an id that has no flag and is below the
\* limit is executed
C33_StopBlocksNextAttempt ==
    [][/\ (ret'.op = "attemptFix" /\ ret'.id \in stopAsked) =>
             /\ ret'.res \in {"stopped-by-user", "maximum-attempts-reached"}
             /\ fixCalls' = fixCalls
             /\ currentAttempts' = currentAttempts
             /\ fixStopFlags' \ {ret'.id} = fixStopFlags \ {ret'.id}
       /\ ret'.op = "fixStop" =>
             /\ fixCalls' = fixCalls
             /\ currentAttempts' = currentAttempts
             /\ fixStopFlags' \ {ret'.id} = fixStopFlags \ {ret'.id}
       /\ (/\ ret'.op = "attemptFix"
           /\ ret'.id \notin fixStopFlags
           /\ currentAttempts[ret'.id] < 5) =>
             /\ ret'.res = "executing"
             /\ currentAttempts'[ret'.id] = currentAttempts[ret'.id] + 1]_vars

\* the attempt that follows a stop has been refused as stopped while a call
\* for another id awaits its fix
C33_Witness ==
    /\ ret.op = "attemptFix"
    /\ ret.res = "stopped-by-user"
    /\ \E i \in 1..Len(fixCalls) : fixCalls[i].id # ret.id

\* C34: once a permission for a type and details has been granted with level
\* 'always', every later requestPermission for the same type and details
\* returns granted: true and creates no pending request, until it is revoked
\* or all permissions are cleared, whatever is granted or denied in between;
\* and after a grant with level 'once' the next requestPermission for the
\* same type and details creates a new pending request
C34_AlwaysStaysGranted ==
    [][/\ (ret'.op = "requestPermission" /\ ret'.arg \in alwaysGranted) =>
             /\ ret'.res.granted
             /\ pendingRequests' = pendingRequests
       /\ (/\ ret.op = "grantPermission" /\ ret.res = "ok"
           /\ ret.arg.level = "once"
           /\ ret'.op = "requestPermission" /\ ret'.arg = ret.arg.ask) =>
             /\ ~ret'.res.granted
             /\ ret'.id \in DOMAIN pendingRequests' \ DOMAIN pendingRequests]_vars

\* the reference meaning of a cron field: the values it matches
MatchesRef(form, v) ==
    IF form.k = "any" THEN TRUE
    ELSE IF form.k = "lit" THEN v = form.n
    ELSE IF form.k = "list" THEN \E i \in 1..Len(form.ns) : v = form.ns[i]
    ELSE IF form.k = "range" THEN form.a <= v /\ v <= form.b
    ELSE v % form.n = 0

\* C35: the cron field matcher agrees with the reference meaning of each
\* supported form for every value of a field: '*' matches every value, a
\* number n exactly n, a comma list exactly its members, a range a-b exactly
\* a <= v <= b, a step */n exactly the v with v mod n = 0; and a poll of a
\* cron task calls the Runner only when all six fields match the clock
C35_MatcherAgrees ==
    [][/\ ret'.op = "matches" => ret'.res = MatchesRef(ret'.arg, ret'.id)
       /\ \A id \in Ids :
             (id \in called' /\ heap[id].type = "recurring") =>
                 /\ Len(heap[id].cron) = 6
                 /\ \A i \in 1..6 :
                       MatchesRef(heap[id].cron[i], Current(now)[i])]_vars

\* a poll of a cron task has called the Runner
C35_Witness ==
    \E id \in Ids :
        /\ id \in called
        /\ heap[id].type = "recurring"
        /\ CronMatches(heap[id].cron, now)

\* C36: each of the three Runner guards is an early return with no effect: a
\* run requested (by a front end or by a timer) for an unknown id, for an id
\* that has an invocation in flight, or for an id with a pending stop request
\* leaves every task field, the in-flight set, the stop flags and the store
\* unchanged and does not invoke the collaborator
C36_GuardsHaveNoEffect ==
    [][\A id \in Ids :
          (/\ RunRequested(id)
           /\ (id \notin tasks \/ executing[id] > 0 \/ id \in stopFlags)) =>
              UNCHANGED <<heap, runningTasks, stopFlags, store, executing>>]_vars

\* C37: immediately after a task is armed or re-armed (by add, resume or
\* load) its nextRun is the arm time plus its interval for a heartbeat task
\* and the arm time plus 60 seconds for a recurring task, and the nextRun of
\* such a task is changed only by arming, not by a run (a restart replaces
\* the task objects by what the files hold, so only the tasks it arms are
\* compared across it)
C37_NextRunSetByArming ==
    [][\A id \in Ids :
          /\ (/\ id \in armed'
              /\ heap'[id].type = "heartbeat"
              /\ heap'[id].interval # NoTime) =>
                 heap'[id].nextRun * MsPerTick
                     = now' * MsPerTick + heap'[id].interval
          /\ (id \in armed' /\ heap'[id].type = "recurring") =>
                 heap'[id].nextRun * MsPerTick = now' * MsPerTick + 60000
          /\ (/\ ret'.op # "restart"
              /\ heap[id].type \in {"heartbeat", "recurring"}
              /\ heap'[id].type = heap[id].type
              /\ heap'[id].nextRun # heap[id].nextRun) => id \in armed'
          /\ Settles(id) => heap'[id].nextRun = heap[id].nextRun]_vars

\* a heartbeat task armed earlier has completed a run at a later tick and
\* has been armed again since
C37_Witness ==
    \E id \in Ids :
        /\ id \in armed
        /\ heap[id].type = "heartbeat"
        /\ heap[id].runCount > 0
        /\ heap[id].nextRun = now + IntervalTicks(heap[id])
        /\ now > 0

\* isRunning (scheduler.js:317-319): whether the id carries the in-flight
\* marker
isRunning(id) == id \in runningTasks

\* C38: isRunning(id) is accurate in every reachable state: it is true
\* exactly when a Runner invocation for id has passed the guards and has not
\* yet completed, whatever the interleaving of runs with pause, remove,
\* shutdown and requestStop
C38_IsRunningAccurate ==
    \A id \in Ids : isRunning(id) <=> executing[id] > 0

\* C39: every permission request is resolved at most once: a grant or a
\* denial that succeeds takes its request id out of the pending set, an id
\* that has left the pending set never returns to it, a grant or denial of an
\* id that is not pending (resolved before, or never issued) answers
\* 'Request not found' and leaves the granted permissions and the pending set
\* as they were, and a denial never adds or changes a granted permission
C39_ResolvedAtMostOnce ==
    [][/\ (/\ ret'.op \in {"grantPermission", "denyPermission"}
           /\ ret'.res = "ok") =>
              /\ ret'.id \in DOMAIN pendingRequests
              /\ ret'.id \notin DOMAIN pendingRequests'
       /\ (/\ ret'.op \in {"grantPermission", "denyPermission"}
           /\ ret'.id \notin DOMAIN pendingRequests) =>
              /\ ret'.res = "request-not-found"
              /\ UNCHANGED <<permissions, pendingRequests>>
       /\ \A r \in 1..MaxRequests :
              (r < nextReq /\ r \notin DOMAIN pendingRequests) =>
                  r \notin DOMAIN pendingRequests'
       /\ ret'.op = "denyPermission" => permissions' = permissions]_vars

\* a request that was issued and is no longer pending has just been granted
\* or denied again and the answer was 'Request not found', while another
\* request is pending and a permission is granted
C39_Witness ==
    /\ ret.op \in {"grantPermission", "denyPermission"}
    /\ ret.res = "request-not-found"
    /\ ret.id < nextReq
    /\ DOMAIN pendingRequests # {}
    /\ DOMAIN permissions # {}

\* the same session id and the same sequence of messages, by role and content
SameHistory(a, b) ==
    /\ a.id = b.id
    /\ Len(a.messages) = Len(b.messages)
    /\ \A i \in 1..Len(a.messages) :
           /\ a.messages[i].role = b.messages[i].role
           /\ a.messages[i].content = b.messages[i].content

\* C40: session history round-trips through its markdown file: parsing the
\* text formatSessionAsMarkdown produces for a session yields the same session
\* id and the same sequence of messages (as many messages, each with the same
\* role and content, in the same order), also when a content spans several
\* lines
C40_RoundTrip ==
    currentSession # NoSession =>
        SameHistory(parseSessionFile(
                        formatSessionAsMarkdown(currentSession, Numeral(stamp))),
                    currentSession)

====
